---- MODULE Spec2Model ----
(***************************************************************************)
(* VeoScripter: the App orchestrator (appState, frames, result, errorMsg), *)
(* the VideoProcessor keyframe sampler (processVideo) and the              *)
(* ResultsDisplay scene regeneration (handleSceneClick), together with the *)
(* Gemini gateway calls that are in flight.  One action per event handler  *)
(* or callback; React state setters of one handler are applied together,   *)
(* followed by the conditional rendering of App.                           *)
(***************************************************************************)
EXTENDS Integers, Sequences, FiniteSets, TLC

VARIABLES
    appState,            \* App: AppState enum
    frames,              \* App: ExtractedFrame[]
    result,              \* App: AnalysisResult | null   (<<>> is null)
    errorMsg,            \* App: string | null           (<<>> is null)
    recoveryTimers,      \* pending setTimeout(() => setAppState(IDLE)) of handleError:
                         \*   how many expire in 0, 1, ... units of time
    dismissTimer,        \* pending setTimeout(() => setErrorMsg(null)) of the effect:
                         \*   the time left | none
    videoSrc,            \* mounted VideoProcessor: selected file | null
    pv,                  \* the running processVideo invocation (loop locals)
    canvas,              \* the canvas element used by processVideo
    analyzeCall,         \* in-flight analyzeVideoFrames call | none
    regeneratingScenes,  \* mounted ResultsDisplay: number | null
    rdInstance,          \* identity of the ResultsDisplay instance (mount count)
    resplitCalls,        \* in-flight regenerateScenes gateway calls
    sessions,            \* number of processVideo invocations so far
    lastOp               \* the handler that ran last (history)

vars == <<appState, frames, result, errorMsg, recoveryTimers, dismissTimer, videoSrc, pv,
          canvas, analyzeCall, regeneratingScenes, rdInstance, resplitCalls,
          sessions, lastOp>>

(***************************************************************************)
(* Bounds of the model                                                     *)
(***************************************************************************)
MaxSessions == 2      \* processVideo invocations explored
MaxScenes == 1        \* longest scene list the gateway returns
MaxAnswers == 2       \* distinct texts the gateway returns
MaxDuration == 18     \* longest video duration (seconds) of the sampler runs
MaxDimSteps == 6      \* source dimensions are DimStep, 2*DimStep, ...
DimStep == 187

(***************************************************************************)
(* Program constants                                                       *)
(***************************************************************************)
frameCount == 8
maxDim == 512
SceneButtons == 5
RecoveryMs == 2500       \* delay of the timer of handleError
DismissMs == 5000        \* delay of the auto-dismiss timer

\* Time advances in units of the shorter delay
UnitMs == RecoveryMs
RecoveryDelay == RecoveryMs \div UnitMs
DismissDelay == DismissMs \div UnitMs

Null == <<>>
Some(x) == <<x>>

AppStates == {"IDLE", "PROCESSING_VIDEO", "ANALYZING_AI", "COMPLETED", "ERROR"}

(***************************************************************************)
(* Exact rational numbers for durations and timestamps                     *)
(***************************************************************************)
Rat(n, d) == [num |-> n, den |-> d]
RatEq(a, b) == a.num * b.den = b.num * a.den
RatLess(a, b) == a.num * b.den < b.num * a.den

(***************************************************************************)
(* Files the user may pick.  type is the MIME type as <<type, subtype>>;   *)
(* duration is what video.duration reads once metadata is loaded.          *)
(***************************************************************************)
Finite(n) == [kind |-> "finite", val |-> n]
NaN == [kind |-> "NaN", val |-> 0]
Infinity == [kind |-> "Infinity", val |-> 0]

File(n, t, d, w, h) ==
    [name |-> n, type |-> t, duration |-> d, videoWidth |-> w, videoHeight |-> h]

AppFiles ==
    { File("notes.png", <<"image", "png">>, NaN, 0, 0),
      File("live.webm", <<"video", "webm">>, Infinity, 640, 480),
      File("a.mp4", <<"video", "mp4">>, Finite(18), 1024, 768),
      File("b.mp4", <<"video", "mp4">>, Finite(9), 320, 240) }

SamplerFiles ==
    { File("v", <<"video", "mp4">>, d, w * DimStep, h * DimStep) :
        d \in {NaN, Infinity} \cup {Finite(n) : n \in 0..MaxDuration},
        w \in 1..MaxDimSteps, h \in 1..MaxDimSteps }
    \cup { File("notes.png", <<"image", "png">>, NaN, 0, 0) }

(***************************************************************************)
(* Gateway answers.  A text is <<field, answer>>; a scene list of the      *)
(* answer a with n scenes is what JSON.parse yields for that response.     *)
(***************************************************************************)
Scene(a, k) ==
    [id |-> k, description |-> <<"description", a, k>>, veoPrompt |-> <<"veoPrompt", a, k>>]

SceneList(a, n) == [k \in 1..n |-> Scene(a, k)]

SceneLists == { SceneList(a, n) : a \in 1..MaxAnswers, n \in 0..MaxScenes }

AnalysisResult(a, scenes) ==
    [script |-> <<"script", a>>, veoPrompt |-> <<"veoPrompt", a>>,
     visualStyle |-> <<"visualStyle", a>>, scenes |-> scenes]

\* What analyzeVideoFrames may return: the texts of the first answer with any
\* number of scenes (regenerateScenes returns the scenes of any answer)
AnalysisResults ==
    { AnalysisResult(1, SceneList(1, n)) : n \in 0..MaxScenes }

(***************************************************************************)
(* App: conditional rendering.  VideoProcessor is rendered only in IDLE,   *)
(* ResultsDisplay only in COMPLETED with a result; a component that is     *)
(* unmounted loses its state, and a newly mounted one starts from its      *)
(* useState initial values.                                                *)
(***************************************************************************)
\* Mutant: the upload panel is also rendered on the error page
VideoProcessorMountedInError(st) == st \in {"IDLE", "ERROR"}

\* Mutant: the upload panel stays rendered while the video is processed
VideoProcessorMountedWhileProcessing(st) == st \in {"IDLE", "PROCESSING_VIDEO"}

VideoProcessorMounted(st) == st = "IDLE"

ResultsDisplayMounted(st, res) == st = "COMPLETED" /\ res # Null

\* The state of the two child components after App re-renders with the new
\* appState st and result res; src and regen are what the handler left in
\* the components that stay mounted.
Render(st, res, src, regen) ==
    /\ videoSrc' =
         IF VideoProcessorMounted(st) /\ VideoProcessorMounted(appState)
         THEN src ELSE Null
    /\ regeneratingScenes' =
         IF ResultsDisplayMounted(st, res) /\ ResultsDisplayMounted(appState, result)
         THEN regen ELSE Null
    /\ rdInstance' =
         IF ResultsDisplayMounted(st, res) /\ ~ResultsDisplayMounted(appState, result)
         THEN rdInstance + 1 ELSE rdInstance

Op(n, c, i) == [name |-> n, count |-> c, inst |-> i]

(***************************************************************************)
(* processVideo locals                                                     *)
(***************************************************************************)
PvNone == [pc |-> "none", video |-> Null, i |-> 0, interval |-> Rat(0, 1), frames |-> <<>>]

\* Mutant: the interval divides by frameCount
IntervalOverCount(duration) == Rat(duration, frameCount)

\* const interval = duration / (frameCount + 1)
Interval(duration) == Rat(duration, frameCount + 1)

\* const time = interval * i
Time(interval, i) == Rat(interval.num * i, interval.den)

\* Mutant: the check misses a zero duration (duration == null || duration === Infinity)
DurationUnusableExceptZero(duration) ==
    \/ duration.kind = "NaN"
    \/ duration.kind = "Infinity"

\* !duration || duration === Infinity
DurationUnusable(duration) ==
    \/ duration.kind = "NaN"
    \/ duration.kind = "finite" /\ duration.val = 0
    \/ duration.kind = "Infinity"

\* file.type.startsWith('video/')
IsVideoType(type) == type[1] = "video"

\* frames.map(f => f.dataUrl)
FrameData(fs) == [k \in 1..Len(fs) |-> fs[k].dataUrl]

Init ==
    /\ appState = "IDLE"
    /\ frames = <<>>
    /\ result = Null
    /\ errorMsg = Null
    /\ recoveryTimers = [d \in 0..RecoveryDelay |-> 0]
    /\ dismissTimer = Null
    /\ videoSrc = Null
    /\ pv = PvNone
    /\ canvas = [width |-> 300, height |-> 150]
    /\ analyzeCall = Null
    /\ regeneratingScenes = Null
    /\ rdInstance = 0
    /\ resplitCalls = {}
    /\ sessions = 0
    /\ lastOp = Op("init", 0, 0)

DefaultCanvas == [width |-> 300, height |-> 150]

(***************************************************************************)
(* IEEE-754 double arithmetic of the canvas sizing.  A positive double is  *)
(* [sig, exp]: sig is the MantissaBits-bit significand written in base     *)
(* 2^DigitBits, most significant digit first (the first digit is 1), and   *)
(* the value is sig * 2^exp.  Every operation rounds its exact result to   *)
(* nearest, ties to even.  The integers involved are below 2^DigitBits.    *)
(***************************************************************************)
MantissaBits == 53
DigitBits == (MantissaBits - 1) \div 4
Base == 2 ^ DigitBits
NDigits == 1 + (MantissaBits - 1) \div DigitBits

\* The number of binary digits of the positive integer n
BitLength(n) == CHOOSE k \in 1..30 : 2 ^ (k - 1) <= n /\ n < 2 ^ k

RECURSIVE DigitsToInt(_)
DigitsToInt(ds) ==
    IF ds = <<>> THEN 0
    ELSE Base * DigitsToInt(SubSeq(ds, 1, Len(ds) - 1)) + ds[Len(ds)]

RECURSIVE Increment(_)
\* sig + 1
Increment(ds) ==
    IF Len(ds) = 1 THEN <<ds[1] + 1>>
    ELSE IF ds[Len(ds)] < Base - 1
    THEN [ds EXCEPT ![Len(ds)] = ds[Len(ds)] + 1]
    ELSE Append(Increment(SubSeq(ds, 1, Len(ds) - 1)), 0)

\* Round to nearest, ties to even: sig * 2^exp is the exact result cut
\* after MantissaBits bits, guard the next bit, sticky whether a nonzero
\* bit follows the guard
RoundToDouble(sig, exp, guard, sticky) ==
    IF guard = 1 /\ (sticky \/ sig[NDigits] % 2 = 1)
    THEN IF Increment(sig)[1] = 2
         THEN [sig |-> [k \in 1..NDigits |-> IF k = 1 THEN 1 ELSE 0], exp |-> exp + 1]
         ELSE [sig |-> Increment(sig), exp |-> exp]
    ELSE [sig |-> sig, exp |-> exp]

RECURSIVE QuotientDigits(_, _, _)
\* Long division of r / b, r < b: the next n digits, then the last remainder
QuotientDigits(r, b, n) ==
    IF n = 0 THEN <<r>>
    ELSE <<(r * Base) \div b>> \o QuotientDigits((r * Base) % b, b, n - 1)

\* a / b for positive integers a and b
FDiv(a, b) ==
    LET up == IF a >= b THEN 0 ELSE BitLength(b) - BitLength(a)
        down == IF a >= b THEN BitLength(a) - BitLength(b) ELSE 0
        \* scaled so that B <= A < 2 * B
        A0 == a * 2 ^ up
        B0 == b * 2 ^ down
        more == A0 < B0
        less == A0 >= 2 * B0
        A == IF more THEN 2 * A0 ELSE A0
        B == IF less THEN 2 * B0 ELSE B0
        shift == down - up + (IF less THEN 1 ELSE 0) - (IF more THEN 1 ELSE 0)
        q == QuotientDigits(A - B, B, NDigits - 1)
        rem == q[NDigits]
    IN  RoundToDouble(<<1>> \o SubSeq(q, 1, NDigits - 1), shift - (MantissaBits - 1),
                      (2 * rem) \div B, (2 * rem) % B # 0)

RECURSIVE ProductDigits(_, _, _)
\* The digits of sig * n + carry (the first digit is not reduced)
ProductDigits(ds, n, carry) ==
    IF Len(ds) = 1 THEN <<ds[1] * n + carry>>
    ELSE LET t == ds[Len(ds)] * n + carry IN
         Append(ProductDigits(SubSeq(ds, 1, Len(ds) - 1), n, t \div Base), t % Base)

\* n * x for a positive integer n and a double x
FMul(n, x) ==
    LET prod == ProductDigits(x.sig, n, 0)
        s == BitLength(prod[1]) - 1          \* bits beyond MantissaBits
        dropped == prod[NDigits] % 2 ^ s
        sig == [k \in 1..NDigits |->
                  IF k = 1 THEN prod[1] \div 2 ^ s
                  ELSE (prod[k - 1] % 2 ^ s) * 2 ^ (DigitBits - s) + prod[k] \div 2 ^ s]
    IN  IF s = 0 THEN [sig |-> prod, exp |-> x.exp]
        ELSE RoundToDouble(sig, x.exp + s, dropped \div 2 ^ (s - 1),
                           dropped % 2 ^ (s - 1) # 0)

\* x < y
FLess(x, y) ==
    IF x.exp # y.exp THEN x.exp < y.exp
    ELSE \E i \in 1..NDigits :
            /\ \A j \in 1..(i - 1) : x.sig[j] = y.sig[j]
            /\ x.sig[i] < y.sig[i]

\* The double 1
FOne == [sig |-> [k \in 1..NDigits |-> IF k = 1 THEN 1 ELSE 0], exp |-> 1 - MantissaBits]

\* The integer part of x (ToUint32 of a double below 2^DigitBits)
Truncate(x) ==
    LET k == 0 - x.exp                       \* fraction bits of sig
        kept == SubSeq(x.sig, 1, NDigits - k \div DigitBits)
    IN  DigitsToInt(kept) \div 2 ^ (k % DigitBits)

(***************************************************************************)
(* processVideo: size of the rasterization surface                         *)
(***************************************************************************)
\* Math.min(maxDim / video.videoWidth, maxDim / video.videoHeight)
MinScale(w, h) ==
    IF FLess(FDiv(maxDim, h), FDiv(maxDim, w)) THEN FDiv(maxDim, h) ELSE FDiv(maxDim, w)

\* Mutant: the cap applies only when both dimensions exceed maxDim
ScaleWhenBothExceed(w, h) == IF w > maxDim /\ h > maxDim THEN MinScale(w, h) ELSE FOne

\* let scale = 1; if (videoWidth > maxDim || videoHeight > maxDim) scale = Math.min(...)
Scale(w, h) == IF w > maxDim \/ h > maxDim THEN MinScale(w, h) ELSE FOne

\* canvas.width = x: the attribute is an unsigned long, so the fraction of
\* the double is dropped
ToPixels(x) == Truncate(x)

\* canvas.width = video.videoWidth * scale; canvas.height = video.videoHeight * scale
CanvasSize(w, h) ==
    [width |-> ToPixels(FMul(w, Scale(w, h))),
     height |-> ToPixels(FMul(h, Scale(w, h)))]

(***************************************************************************)
(* App handlers (the state setters of one handler, before rendering)       *)
(***************************************************************************)
\* Mutant: the effect arms the timer only on the error page
AutoDismissInErrorOnly ==
    dismissTimer' = IF errorMsg' = errorMsg THEN dismissTimer
                    ELSE IF errorMsg' = Null \/ appState' # "ERROR" THEN Null
                    ELSE Some(DismissDelay)

\* useEffect(..., [errorMsg]): when a render commits another errorMsg the
\* clean-up cancels the pending timer, and a non-null errorMsg arms a new one
AutoDismiss ==
    dismissTimer' = IF errorMsg' = errorMsg THEN dismissTimer
                    ELSE IF errorMsg' = Null THEN Null
                    ELSE Some(DismissDelay)

\* handleError(msg): ERROR, the message, and a timer that will set IDLE
handleError(msg) ==
    /\ appState' = "ERROR"
    /\ errorMsg' = Some(msg)
    /\ recoveryTimers' = [recoveryTimers EXCEPT ![RecoveryDelay] = @ + 1]

\* Mutant: handleFramesExtracted shows the results page without waiting for
\* the analyze call
handleFramesExtractedSkippingAnalyze(extractedFrames) ==
    /\ frames' = extractedFrames
    /\ appState' = "COMPLETED"
    /\ analyzeCall' = Some(FrameData(extractedFrames))

\* handleFramesExtracted(extractedFrames), up to the await of analyzeVideoFrames
handleFramesExtracted(extractedFrames) ==
    /\ frames' = extractedFrames
    /\ appState' = "ANALYZING_AI"
    /\ analyzeCall' = Some(FrameData(extractedFrames))

(***************************************************************************)
(* VideoProcessor                                                          *)
(***************************************************************************)
\* handleFileChange: the user picks a file in the mounted VideoProcessor
HandleFileChange(file) ==
    /\ VideoProcessorMounted(appState)
    /\ IF ~IsVideoType(file.type)
       THEN /\ handleError("Please upload a valid video file.")
            /\ Render("ERROR", result, videoSrc, regeneratingScenes)
       ELSE /\ UNCHANGED <<appState, errorMsg, recoveryTimers>>
            /\ Render(appState, result, Some(file), regeneratingScenes)
    /\ lastOp' = Op("handleFileChange", 0, 0)
    /\ UNCHANGED <<frames, result, pv, canvas, analyzeCall, resplitCalls, sessions>>
    /\ AutoDismiss

\* Mutant: the loop starts by seeking to the second timestamp
OnLoadedMetadataSeekingAhead(ctxOk) ==
    /\ VideoProcessorMounted(appState)
    /\ videoSrc # Null
    /\ pv.pc = "none"
    /\ sessions < MaxSessions
    /\ LET video == videoSrc[1] IN
       IF DurationUnusable(video.duration)
       THEN /\ handleError("Could not determine video duration.")
            /\ UNCHANGED <<pv, canvas>>
       ELSE IF ~ctxOk
       THEN /\ handleError("Could not initialize canvas context.")
            /\ UNCHANGED <<pv, canvas>>
       ELSE \* onProcessingStart(), canvas sizing, first seek
            /\ appState' = "PROCESSING_VIDEO"
            /\ errorMsg' = Null
            /\ UNCHANGED recoveryTimers
            /\ canvas' = CanvasSize(video.videoWidth, video.videoHeight)
            /\ pv' = [pc |-> "seeking", video |-> Some(video), i |-> 2,
                      interval |-> Interval(video.duration.val), frames |-> <<>>]
    /\ Render(appState', result, videoSrc, regeneratingScenes)
    /\ sessions' = sessions + 1
    /\ lastOp' = Op("processVideo", 0, 0)
    /\ UNCHANGED <<frames, result, analyzeCall, resplitCalls>>
    /\ AutoDismiss

\* onLoadedMetadata -> processVideo, up to the first await of the loop.
\* ctxOk: whether canvas.getContext('2d') returns a context.
OnLoadedMetadata(ctxOk) ==
    /\ VideoProcessorMounted(appState)
    /\ videoSrc # Null
    /\ pv.pc = "none"
    /\ sessions < MaxSessions
    /\ LET video == videoSrc[1] IN
       IF DurationUnusable(video.duration)
       THEN /\ handleError("Could not determine video duration.")
            /\ UNCHANGED <<pv, canvas>>
       ELSE IF ~ctxOk
       THEN /\ handleError("Could not initialize canvas context.")
            /\ UNCHANGED <<pv, canvas>>
       ELSE \* onProcessingStart(), canvas sizing, first seek
            /\ appState' = "PROCESSING_VIDEO"
            /\ errorMsg' = Null
            /\ UNCHANGED recoveryTimers
            /\ canvas' = CanvasSize(video.videoWidth, video.videoHeight)
            /\ pv' = [pc |-> "seeking", video |-> Some(video), i |-> 1,
                      interval |-> Interval(video.duration.val), frames |-> <<>>]
    /\ Render(appState', result, videoSrc, regeneratingScenes)
    /\ sessions' = sessions + 1
    /\ lastOp' = Op("processVideo", 0, 0)
    /\ UNCHANGED <<frames, result, analyzeCall, resplitCalls>>
    /\ AutoDismiss

\* The frame pushed in iteration i of the loop
ExtractedFrame(i, time, cv, video) ==
    [id |-> i, timestamp |-> time,
     dataUrl |-> [src |-> video.name, time |-> time, width |-> cv.width, height |-> cv.height]]

\* Mutant: the catch hands the frames collected so far to onFramesExtracted
OnSeekedDeliveringPartial(outcome) ==
    /\ pv.pc = "seeking"
    /\ LET time == Time(pv.interval, pv.i)
           pushed == Append(pv.frames, ExtractedFrame(pv.i, time, canvas, pv.video[1]))
       IN
       IF outcome # "ok"
       THEN /\ handleFramesExtracted(pv.frames)
            /\ pv' = PvNone
            /\ canvas' = DefaultCanvas
            /\ UNCHANGED <<errorMsg, recoveryTimers>>
       ELSE IF pv.i < frameCount
       THEN /\ pv' = [pv EXCEPT !.i = pv.i + 1, !.frames = pushed]
            /\ UNCHANGED <<appState, errorMsg, recoveryTimers, frames, analyzeCall, canvas>>
       ELSE /\ handleFramesExtracted(pushed)
            /\ pv' = PvNone
            /\ canvas' = DefaultCanvas
            /\ UNCHANGED <<errorMsg, recoveryTimers>>
    /\ Render(appState', result, videoSrc, regeneratingScenes)
    /\ lastOp' = Op(IF outcome = "ok" THEN "onSeeked" ELSE "onSeekedThrew", pv.i, 0)
    /\ UNCHANGED <<result, resplitCalls, sessions>>
    /\ AutoDismiss

\* onSeeked: the decoder finished the seek of iteration pv.i; the loop body
\* runs to the next await, or to the end of processVideo.
\* outcome: "ok", or the step that throws ("draw": ctx.drawImage,
\* "encode": canvas.toDataURL).
OnSeeked(outcome) ==
    /\ pv.pc = "seeking"
    /\ LET time == Time(pv.interval, pv.i)
           pushed == Append(pv.frames, ExtractedFrame(pv.i, time, canvas, pv.video[1]))
       IN
       IF outcome # "ok"
       THEN \* catch (err): onError
            /\ handleError("Error processing video frames.")
            /\ pv' = PvNone
            /\ canvas' = DefaultCanvas
            /\ UNCHANGED <<frames, analyzeCall>>
       ELSE IF pv.i < frameCount
       THEN /\ pv' = [pv EXCEPT !.i = pv.i + 1, !.frames = pushed]
            /\ UNCHANGED <<appState, errorMsg, recoveryTimers, frames, analyzeCall, canvas>>
       ELSE \* loop finished: onFramesExtracted(frames)
            /\ handleFramesExtracted(pushed)
            /\ pv' = PvNone
            /\ canvas' = DefaultCanvas
            /\ UNCHANGED <<errorMsg, recoveryTimers>>
    /\ Render(appState', result, videoSrc, regeneratingScenes)
    /\ lastOp' = Op(IF outcome = "ok" THEN "onSeeked" ELSE "onSeekedThrew", pv.i, 0)
    /\ UNCHANGED <<result, resplitCalls, sessions>>
    /\ AutoDismiss

(***************************************************************************)
(* App: the rest of handleFramesExtracted, after the await                 *)
(***************************************************************************)
\* ResultsDisplay: {result.scenes?.length || 0} Scenes Detected
ScenesDetected(res) == Len(res.scenes)

\* Mutant: the continuation treats a result without scenes as a failed analysis
AnalyzeSucceededRejectingEmpty(aiResult) ==
    /\ analyzeCall # Null
    /\ IF aiResult.scenes = <<>>
       THEN /\ appState' = "ERROR"
            /\ errorMsg' = Some("Unable to analyze video. Please check your internet connection or try a shorter video.")
            /\ UNCHANGED result
       ELSE /\ appState' = "COMPLETED"
            /\ result' = Some(aiResult)
            /\ UNCHANGED errorMsg
    /\ analyzeCall' = Null
    /\ Render(appState', result', videoSrc, regeneratingScenes)
    /\ lastOp' = Op("analyzeSucceeded", 0, 0)
    /\ UNCHANGED <<frames, recoveryTimers, pv, canvas, resplitCalls, sessions>>
    /\ AutoDismiss

\* analyzeVideoFrames resolved with aiResult: setResult, COMPLETED
AnalyzeSucceeded(aiResult) ==
    /\ analyzeCall # Null
    /\ result' = Some(aiResult)
    /\ appState' = "COMPLETED"
    /\ analyzeCall' = Null
    /\ Render("COMPLETED", Some(aiResult), videoSrc, regeneratingScenes)
    /\ lastOp' = Op("analyzeSucceeded", 0, 0)
    /\ UNCHANGED <<frames, errorMsg, recoveryTimers, pv, canvas, resplitCalls, sessions>>
    /\ AutoDismiss

\* Mutant: the catch calls analyzeVideoFrames again
AnalyzeFailedRetrying ==
    /\ analyzeCall # Null
    /\ errorMsg' = Some("Unable to analyze video. Please check your internet connection or try a shorter video.")
    /\ Render(appState, result, videoSrc, regeneratingScenes)
    /\ lastOp' = Op("analyzeFailed", 0, 0)
    /\ UNCHANGED <<appState, analyzeCall, frames, result, recoveryTimers, pv, canvas,
                   resplitCalls, sessions>>
    /\ AutoDismiss

\* Mutant: the catch shows the results page
AnalyzeFailedShowingResults ==
    /\ analyzeCall # Null
    /\ appState' = "COMPLETED"
    /\ errorMsg' = Some("Unable to analyze video. Please check your internet connection or try a shorter video.")
    /\ analyzeCall' = Null
    /\ Render("COMPLETED", result, videoSrc, regeneratingScenes)
    /\ lastOp' = Op("analyzeFailed", 0, 0)
    /\ UNCHANGED <<frames, result, recoveryTimers, pv, canvas, resplitCalls, sessions>>
    /\ AutoDismiss

\* analyzeVideoFrames threw: catch sets ERROR and the message (no timer)
AnalyzeFailed ==
    /\ analyzeCall # Null
    /\ appState' = "ERROR"
    /\ errorMsg' = Some("Unable to analyze video. Please check your internet connection or try a shorter video.")
    /\ analyzeCall' = Null
    /\ Render("ERROR", result, videoSrc, regeneratingScenes)
    /\ lastOp' = Op("analyzeFailed", 0, 0)
    /\ UNCHANGED <<frames, result, recoveryTimers, pv, canvas, resplitCalls, sessions>>
    /\ AutoDismiss

(***************************************************************************)
(* ResultsDisplay.handleSceneClick -> App.handleRegenerateScenes           *)
(***************************************************************************)
\* Mutant: the call is given the frames without the first one
RegenerateCallsDroppingFrame(count) ==
    IF result = Null \/ Len(frames) = 0
    THEN {}
    ELSE {[inst |-> rdInstance, count |-> count, frames |-> Tail(FrameData(frames))]}

\* handleRegenerateScenes(count) up to the await: the gateway call it issues,
\* none when the guard returns early
RegenerateCalls(count) ==
    IF result = Null \/ Len(frames) = 0
    THEN {}
    ELSE {[inst |-> rdInstance, count |-> count, frames |-> FrameData(frames)]}

\* Mutant: the request switches the page to the analyzing spinner
HandleSceneClickShowingSpinner(count) ==
    /\ ResultsDisplayMounted(appState, result)
    /\ regeneratingScenes = Null
    /\ resplitCalls' = resplitCalls \cup RegenerateCalls(count)
    /\ appState' = "ANALYZING_AI"
    /\ Render("ANALYZING_AI", result, videoSrc,
              IF RegenerateCalls(count) = {} THEN Null ELSE Some(count))
    /\ lastOp' = Op("handleSceneClick", count, rdInstance)
    /\ UNCHANGED <<frames, result, errorMsg, recoveryTimers, pv, canvas,
                   analyzeCall, sessions>>
    /\ AutoDismiss

\* A scene-count button is clicked (the buttons are disabled, and the
\* handler returns, while regeneratingScenes is not null)
HandleSceneClick(count) ==
    /\ ResultsDisplayMounted(appState, result)
    /\ regeneratingScenes = Null
    /\ resplitCalls' = resplitCalls \cup RegenerateCalls(count)
    /\ Render(appState, result, videoSrc,
              IF RegenerateCalls(count) = {} THEN Null ELSE Some(count))
    /\ lastOp' = Op("handleSceneClick", count, rdInstance)
    /\ UNCHANGED <<appState, frames, result, errorMsg, recoveryTimers, pv, canvas,
                   analyzeCall, sessions>>
    /\ AutoDismiss

\* Mutant: the update spreads prev without testing it (null spreads to nothing)
MergeScenesWithoutPrev(prev, newScenes) ==
    IF prev = Null THEN Some([scenes |-> newScenes])
    ELSE Some([prev[1] EXCEPT !.scenes = newScenes])

\* Mutant: the merge spreads the fields in the wrong order and loses the script
MergeScenesLosingScript(prev, newScenes) ==
    IF prev = Null THEN Null
    ELSE Some([prev[1] EXCEPT !.scenes = newScenes, !.script = <<"script", 0>>])

\* setResult(prev => prev ? { ...prev, scenes: newScenes } : null)
MergeScenes(prev, newScenes) ==
    IF prev = Null THEN Null ELSE Some([prev[1] EXCEPT !.scenes = newScenes])

\* Mutant: handleSceneClick forgets setRegeneratingScenes(null)
ClearRegeneratingNever(call) == regeneratingScenes

\* setRegeneratingScenes(null) of the instance that issued the call; the
\* setter of an unmounted instance does nothing
ClearRegenerating(call) ==
    IF call.inst = rdInstance THEN Null ELSE regeneratingScenes

\* regenerateScenes resolved with newScenes (data.scenes, whatever its length)
ResplitSucceeded(call, newScenes) ==
    /\ call \in resplitCalls
    /\ resplitCalls' = resplitCalls \ {call}
    /\ result' = MergeScenes(result, newScenes)
    /\ Render(appState, result', videoSrc, ClearRegenerating(call))
    /\ lastOp' = Op("resplitSucceeded", call.count, call.inst)
    /\ UNCHANGED <<appState, frames, errorMsg, recoveryTimers, pv, canvas,
                   analyzeCall, sessions>>
    /\ AutoDismiss

\* Mutant: the catch also discards the result
ResplitFailedDiscarding(call) ==
    /\ call \in resplitCalls
    /\ resplitCalls' = resplitCalls \ {call}
    /\ errorMsg' = Some("Failed to split scenes. Please try again.")
    /\ result' = Null
    /\ Render(appState, result', videoSrc, ClearRegenerating(call))
    /\ lastOp' = Op("resplitFailed", call.count, call.inst)
    /\ UNCHANGED <<appState, frames, recoveryTimers, pv, canvas, analyzeCall, sessions>>
    /\ AutoDismiss

\* regenerateScenes threw: catch sets the message
ResplitFailed(call) ==
    /\ call \in resplitCalls
    /\ resplitCalls' = resplitCalls \ {call}
    /\ errorMsg' = Some("Failed to split scenes. Please try again.")
    /\ Render(appState, result, videoSrc, ClearRegenerating(call))
    /\ lastOp' = Op("resplitFailed", call.count, call.inst)
    /\ UNCHANGED <<appState, frames, result, recoveryTimers, pv, canvas,
                   analyzeCall, sessions>>
    /\ AutoDismiss

\* Mutant: handleReset forgets setResult(null)
HandleResetKeepingResult ==
    /\ ResultsDisplayMounted(appState, result)
    /\ appState' = "IDLE"
    /\ frames' = <<>>
    /\ errorMsg' = Null
    /\ Render("IDLE", result, videoSrc, regeneratingScenes)
    /\ lastOp' = Op("handleReset", 0, 0)
    /\ UNCHANGED <<result, recoveryTimers, pv, canvas, analyzeCall, resplitCalls, sessions>>
    /\ AutoDismiss

\* Mutant: handleReset forgets setFrames([])
HandleResetKeepingFrames ==
    /\ ResultsDisplayMounted(appState, result)
    /\ appState' = "IDLE"
    /\ result' = Null
    /\ errorMsg' = Null
    /\ Render("IDLE", Null, videoSrc, regeneratingScenes)
    /\ lastOp' = Op("handleReset", 0, 0)
    /\ UNCHANGED <<frames, recoveryTimers, pv, canvas, analyzeCall, resplitCalls, sessions>>
    /\ AutoDismiss

\* handleReset: the "Analyze Another Video" button of ResultsDisplay
HandleReset ==
    /\ ResultsDisplayMounted(appState, result)
    /\ appState' = "IDLE"
    /\ frames' = <<>>
    /\ result' = Null
    /\ errorMsg' = Null
    /\ Render("IDLE", Null, videoSrc, regeneratingScenes)
    /\ lastOp' = Op("handleReset", 0, 0)
    /\ UNCHANGED <<recoveryTimers, pv, canvas, analyzeCall, resplitCalls, sessions>>
    /\ AutoDismiss

(***************************************************************************)
(* Timers                                                                  *)
(***************************************************************************)
\* The setTimeout of handleError expires: setAppState(IDLE)
RecoveryTimerFires ==
    /\ recoveryTimers[0] > 0
    /\ recoveryTimers' = [recoveryTimers EXCEPT ![0] = @ - 1]
    /\ appState' = "IDLE"
    /\ Render("IDLE", result, videoSrc, regeneratingScenes)
    /\ lastOp' = Op("recoveryTimer", 0, 0)
    /\ UNCHANGED <<frames, result, errorMsg, pv, canvas, analyzeCall, resplitCalls, sessions>>
    /\ AutoDismiss

\* The timer of the auto-dismiss effect expires: setErrorMsg(null)
DismissError ==
    /\ dismissTimer = Some(0)
    /\ errorMsg' = Null
    /\ lastOp' = Op("dismissError", 0, 0)
    /\ UNCHANGED <<appState, frames, result, recoveryTimers, videoSrc, pv, canvas,
                   analyzeCall, regeneratingScenes, rdInstance, resplitCalls, sessions>>
    /\ AutoDismiss

\* One unit of time passes: every pending timer comes one unit closer; a
\* timer that is due runs before time passes further
Tick ==
    /\ recoveryTimers[0] = 0
    /\ dismissTimer # Some(0)
    /\ dismissTimer # Null \/ \E d \in 1..RecoveryDelay : recoveryTimers[d] > 0
    /\ recoveryTimers' = [d \in 0..RecoveryDelay |->
                            IF d = RecoveryDelay THEN 0 ELSE recoveryTimers[d + 1]]
    /\ dismissTimer' = IF dismissTimer = Null THEN Null ELSE Some(dismissTimer[1] - 1)
    /\ UNCHANGED <<appState, frames, result, errorMsg, videoSrc, pv, canvas, analyzeCall,
                   regeneratingScenes, rdInstance, resplitCalls, sessions, lastOp>>

(***************************************************************************)
(* Specifications                                                          *)
(***************************************************************************)
SeekOutcomes == {"ok", "draw", "encode"}

Next ==
    \/ \E file \in AppFiles : HandleFileChange(file)
    \/ \E ctxOk \in BOOLEAN : OnLoadedMetadata(ctxOk)
    \/ \E outcome \in SeekOutcomes : OnSeeked(outcome)
    \/ \E aiResult \in AnalysisResults : AnalyzeSucceeded(aiResult)
    \/ AnalyzeFailed
    \/ \E count \in 1..SceneButtons : HandleSceneClick(count)
    \/ \E call \in resplitCalls, newScenes \in SceneLists : ResplitSucceeded(call, newScenes)
    \/ \E call \in resplitCalls : ResplitFailed(call)
    \/ HandleReset
    \/ RecoveryTimerFires
    \/ DismissError
    \/ Tick

Spec == Init /\ [][Next]_vars

\* Time passes and the timers of the event loop expire; nothing obliges the
\* decoder or the gateway to answer, or the user to act.
FairSpec ==
    Spec /\ WF_vars(Tick) /\ WF_vars(RecoveryTimerFires) /\ WF_vars(DismissError)

\* The sampler alone, over a wider range of sources: file selection,
\* processVideo and the timers (the gateway does not answer).
SamplerNext ==
    \/ \E file \in SamplerFiles : HandleFileChange(file)
    \/ \E ctxOk \in BOOLEAN : OnLoadedMetadata(ctxOk)
    \/ \E outcome \in SeekOutcomes : OnSeeked(outcome)
    \/ RecoveryTimerFires
    \/ DismissError
    \/ Tick

SamplerSpec == Init /\ [][SamplerNext]_vars

\* The whole application with one gateway answer and the first and last
\* scene-count buttons: what the gateway returns and which count is asked
\* for have no bearing on the error message and its timer.
MessageNext ==
    \/ \E file \in AppFiles : HandleFileChange(file)
    \/ \E ctxOk \in BOOLEAN : OnLoadedMetadata(ctxOk)
    \/ \E outcome \in SeekOutcomes : OnSeeked(outcome)
    \/ AnalyzeSucceeded(AnalysisResult(1, SceneList(1, 1)))
    \/ AnalyzeFailed
    \/ \E count \in {1, SceneButtons} : HandleSceneClick(count)
    \/ \E call \in resplitCalls : ResplitSucceeded(call, SceneList(1, 1))
    \/ \E call \in resplitCalls : ResplitFailed(call)
    \/ HandleReset
    \/ RecoveryTimerFires
    \/ DismissError
    \/ Tick

\* Time passes and the timers expire; the user, the decoder and the gateway
\* are under no obligation.
MessageSpec ==
    /\ Init /\ [][MessageNext]_vars
    /\ WF_vars(Tick) /\ WF_vars(RecoveryTimerFires) /\ WF_vars(DismissError)

(***************************************************************************)
(* Claims                                                                  *)
(***************************************************************************)
\* C1: whenever the session is Failed (appState ERROR), it later returns
\* to Idle without any user action.
C1_FailedReturnsToIdle == (appState = "ERROR") ~> (appState = "IDLE")

\* A call is superseded when the ResultsDisplay that issued it is no longer
\* the mounted one (the session was reset since)
Superseded(call) ==
    ~(ResultsDisplayMounted(appState, result) /\ call.inst = rdInstance)

\* C2: the response, success or failure, to a resplit call issued before a
\* reset changes neither the result (scenes included) nor the error message.
C2_SupersededResponseIgnored ==
    [][\A call \in resplitCalls :
          (/\ Superseded(call)
           /\ \/ \E newScenes \in SceneLists : ResplitSucceeded(call, newScenes)
              \/ ResplitFailed(call))
          => (result' = result /\ errorMsg' = errorMsg)]_vars

\* C3: at every moment at most one gateway resplit call is outstanding.
C3_OneResplitOutstanding == Cardinality(resplitCalls) <= 1

\* C4: after a regenerateScenes(K) response was handled as a success, the
\* stored result has exactly K scenes.
C4_ExactlyKScenes ==
    (lastOp.name = "resplitSucceeded" /\ result # Null)
        => Len(result[1].scenes) = lastOp.count

\* C5: within one session, a stored result keeps its script, veoPrompt and
\* visualStyle over every step (regenerations included); only scenes differ.
C5_TextsStable ==
    [][(result # Null /\ result' # Null)
          => /\ result'[1].script = result[1].script
             /\ result'[1].veoPrompt = result[1].veoPrompt
             /\ result'[1].visualStyle = result[1].visualStyle]_vars

\* C5 witness: a regeneration replaced the scenes of the analyze result by
\* scenes of another gateway answer.
C5_Witness ==
    /\ lastOp.name = "resplitSucceeded"
    /\ result # Null
    /\ result[1].script = <<"script", 1>>
    /\ result[1].scenes = SceneList(2, MaxScenes)

\* C6: when the resplit call of a request fails, the result is left as it
\* was, an error message is surfaced, and a Ready session stays Ready.
C6_ResplitFailureKeepsResult ==
    [][\A call \in resplitCalls :
          ResplitFailed(call)
          => /\ result' = result
             /\ errorMsg' # Null
             /\ appState' = appState
             /\ ~Superseded(call) => (appState' = "COMPLETED" /\ result' # Null)]_vars

\* C6 witness: the failure of a call of the live session has been handled.
C6_Witness ==
    /\ lastOp.name = "resplitFailed"
    /\ lastOp.inst = rdInstance
    /\ appState = "COMPLETED"
    /\ result # Null
    /\ errorMsg = Some("Failed to split scenes. Please try again.")

\* C7: right after handleReset the session is Idle with no cached frames,
\* no result and no error message.
C7_ResetClearsSession ==
    lastOp.name = "handleReset"
        => /\ appState = "IDLE"
           /\ frames = <<>>
           /\ result = Null
           /\ errorMsg = Null

\* C7 witness: a reset made while a resplit call was pending.
C7_Witness == lastOp.name = "handleReset" /\ resplitCalls # {}

C9_Timestamps ==
    [][(frames' # frames /\ frames' # <<>>)
          => LET d == pv.video[1].duration.val IN
             /\ d > 0
             /\ Len(frames') = frameCount
             /\ \A k \in 1..frameCount :
                   /\ frames'[k].id = k
                   /\ RatEq(frames'[k].timestamp, Rat(d * k, frameCount + 1))
                   /\ RatLess(Rat(0, 1), frames'[k].timestamp)
                   /\ RatLess(frames'[k].timestamp, Rat(d, 1))
             /\ \A k \in 1..(frameCount - 1) :
                   RatLess(frames'[k].timestamp, frames'[k + 1].timestamp)]_vars

\* C9 witness: the frames of an 18 second video are at 2, 4, ..., 16 seconds.
C9_Witness ==
    /\ Len(frames) = frameCount
    /\ \A k \in 1..Len(frames) : RatEq(frames[k].timestamp, Rat(2 * k, 1))

\* scale = min(1, M/width, M/height), as an exact rational
ClaimedScale(w, h) ==
    IF w <= maxDim /\ h <= maxDim THEN Rat(1, 1)
    ELSE IF w >= h THEN Rat(maxDim, w) ELSE Rat(maxDim, h)

Max(a, b) == IF a >= b THEN a ELSE b

\* C10 (as stated): the surface size is the source size multiplied by
\* scale = min(1, M/width, M/height), the larger dimension at most M when a
\* source dimension exceeds M, and the source size otherwise.
C10_SurfaceIsSourceTimesScale ==
    pv.pc = "seeking"
        => LET w == pv.video[1].videoWidth
               h == pv.video[1].videoHeight
               s == ClaimedScale(w, h)
           IN  /\ canvas.width * s.den = w * s.num
               /\ canvas.height * s.den = h * s.num
               /\ (w > maxDim \/ h > maxDim) => Max(canvas.width, canvas.height) <= maxDim
               /\ (w <= maxDim /\ h <= maxDim) => (canvas.width = w /\ canvas.height = h)

\* C10 (amended): each surface dimension is a whole number of pixels, at
\* most the source dimension multiplied by scale and at most one pixel
\* below it; the larger dimension is at most M when a source dimension
\* exceeds M, and the surface has the source size otherwise.
C10_SurfaceIsTruncatedSourceTimesScale ==
    pv.pc = "seeking"
        => LET w == pv.video[1].videoWidth
               h == pv.video[1].videoHeight
               s == ClaimedScale(w, h)
           IN  /\ canvas.width * s.den <= w * s.num
               /\ w * s.num - canvas.width * s.den <= s.den
               /\ canvas.height * s.den <= h * s.num
               /\ h * s.num - canvas.height * s.den <= s.den
               /\ (w > maxDim \/ h > maxDim) => Max(canvas.width, canvas.height) <= maxDim
               /\ (w <= maxDim /\ h <= maxDim) => (canvas.width = w /\ canvas.height = h)

\* C10 witness: a source wider than M whose scaled height is not a whole
\* number of pixels has been given its surface.
C10_Witness ==
    /\ pv.pc = "seeking"
    /\ pv.video[1].videoWidth > maxDim
    /\ pv.video[1].videoWidth > pv.video[1].videoHeight
    /\ canvas.width <= maxDim
    /\ canvas.height * pv.video[1].videoWidth < pv.video[1].videoHeight * maxDim


\* C11: the steps of a session occur in order.  The analyze call is issued
\* only by the sampling pass that has just pushed its complete sequence of
\* frameCount frames, and COMPLETED is entered only from ANALYZING_AI, by the
\* analyze call returning a result; never from IDLE, PROCESSING_VIDEO or ERROR.
C11_StepsInOrder ==
    [][ /\ (analyzeCall = Null /\ analyzeCall' # Null) =>
             /\ appState = "PROCESSING_VIDEO"
             /\ pv.pc = "seeking" /\ pv.i = frameCount
             /\ Len(frames') = frameCount
             /\ analyzeCall' = Some(FrameData(frames'))
             /\ appState' = "ANALYZING_AI"
        /\ (appState # "COMPLETED" /\ appState' = "COMPLETED") =>
             /\ appState = "ANALYZING_AI"
             /\ analyzeCall # Null /\ analyzeCall' = Null
             /\ result' # Null
             /\ Len(frames) = frameCount ]_vars

C11_Witness ==
    /\ appState = "COMPLETED"
    /\ lastOp.name = "analyzeSucceeded"
    /\ Len(frames) = frameCount


\* C12: every seek wait is bounded.  A sampling pass that waits for the
\* decoder's 'seeked' event does not wait forever: whether or not the decoder
\* signals, the session eventually leaves PROCESSING_VIDEO (for ANALYZING_AI
\* after the last frame, or for ERROR after a failure such as a seek timeout).
C12_SeekWaitBounded ==
    (appState = "PROCESSING_VIDEO" /\ pv.pc = "seeking") ~> (appState # "PROCESSING_VIDEO")


\* C13: entering ERROR discards the session's data.  Right after a sampling
\* failure or a failure of the initial analyze call, appState is ERROR, no
\* result is stored and the cached frame sequence is empty.
C13_FailedHoldsNothing ==
    (appState = "ERROR" /\ lastOp.name \in {"processVideo", "onSeekedThrew", "analyzeFailed"})
        => (result = Null /\ frames = <<>>)


\* C14: whenever appState is ERROR a reason is present (errorMsg is not
\* null); the session is never Failed with its reason already cleared.
C14_FailedHasReason == (appState = "ERROR") => (errorMsg # Null)


\* C15: the failure reason is cleared no later than the automatic return to
\* Idle.  Right after the recovery timer has set appState to IDLE, errorMsg
\* is null.
C15_RecoveredCarriesNoError ==
    (lastOp.name = "recoveryTimer" /\ appState = "IDLE") => (errorMsg = Null)


\* C16: a source whose duration is NaN, zero or infinite fails before
\* sampling begins.  The processVideo call on such a source issues no seek
\* and produces no frame, and leaves the session in ERROR with the duration
\* error as its reason.
C16_NoDuration(duration) ==
    duration \in {NaN, Infinity, Finite(0)}

C16_UnusableDurationFailsFirst ==
    [][ (sessions' # sessions /\ videoSrc # Null /\ C16_NoDuration(videoSrc[1].duration)) =>
          /\ appState' = "ERROR"
          /\ errorMsg' = Some("Could not determine video duration.")
          /\ pv.pc = "none" /\ pv' = PvNone
          /\ frames' = <<>> /\ analyzeCall' = Null ]_vars

C16_Witness ==
    /\ lastOp.name = "processVideo"
    /\ appState = "ERROR"
    /\ errorMsg = Some("Could not determine video duration.")
    /\ pv = PvNone


\* C17: when the initial analyze call returns a result, with any scene list
\* (the empty one included), the session is COMPLETED and holds exactly the
\* returned result, the results page shows as many scenes as were returned
\* (0 for an empty list), and the step surfaces no error.
C17_AnalyzeResultStored ==
    [][ \A aiResult \in AnalysisResults :
          AnalyzeSucceeded(aiResult) =>
            /\ appState' = "COMPLETED"
            /\ result' = Some(aiResult)
            /\ ResultsDisplayMounted(appState', result')
            /\ ScenesDetected(result'[1]) = Len(aiResult.scenes)
            /\ errorMsg' = errorMsg ]_vars

C17_Witness ==
    /\ lastOp.name = "analyzeSucceeded"
    /\ appState = "COMPLETED"
    /\ result # Null
    /\ result[1].scenes = <<>>
    /\ ScenesDetected(result[1]) = 0
    /\ errorMsg = Null


\* C18: sampling is strictly sequential.  While a seek is outstanding it is
\* the seek for the frame after the ones already appended (frames 1..i-1 are
\* in the sequence, in order), and the seek for frame i+1 is issued only by
\* the step that handles the 'seeked' event of frame i and appends frame i.
\* The pass has one position, so two seeks are never outstanding.
C18_SeeksSequential ==
    [][ /\ pv'.pc = "seeking" =>
             /\ pv'.i \in 1..frameCount
             /\ Len(pv'.frames) = pv'.i - 1
             /\ \A k \in 1..Len(pv'.frames) : pv'.frames[k].id = k
        /\ (pv.pc = "seeking" /\ pv'.pc = "seeking" /\ pv'.i # pv.i) =>
             /\ pv'.i = pv.i + 1
             /\ lastOp' = Op("onSeeked", pv.i, 0)
             /\ Len(pv'.frames) = Len(pv.frames) + 1
             /\ SubSeq(pv'.frames, 1, Len(pv.frames)) = pv.frames
             /\ pv'.frames[pv.i].timestamp = Time(pv.interval, pv.i) ]_vars

C18_Witness ==
    /\ pv.pc = "seeking"
    /\ pv.i = frameCount
    /\ Len(pv.frames) = frameCount - 1
    /\ lastOp = Op("onSeeked", frameCount - 1, 0)


\* C19: at most one sampling pass is in progress, and a new pass starts only
\* while the session is IDLE.  A pass is in progress only in
\* PROCESSING_VIDEO; while one is, no VideoProcessor with a source is
\* mounted whose loadedmetadata event could start another; and the step that
\* starts a pass is taken in IDLE with no pass in progress.
C19_OneSamplingPass ==
    [][ /\ pv'.pc # "none" => appState' = "PROCESSING_VIDEO"
        /\ pv'.pc # "none" => (videoSrc' = Null /\ ~VideoProcessorMounted(appState'))
        /\ sessions' # sessions => (appState = "IDLE" /\ pv.pc = "none") ]_vars

C19_Witness ==
    /\ sessions = MaxSessions
    /\ lastOp.name = "processVideo"
    /\ appState = "PROCESSING_VIDEO"
    /\ pv.pc = "seeking"


\* C20: every resplit call receives exactly the frame sequence cached when
\* its session's sampling succeeded, and issuing it starts no sampling pass.
\* The cache changes only when handleFramesExtracted stores a complete
\* sequence and passes the same sequence to the analyze call, or when reset
\* empties it; the step that issues a resplit call passes the whole cache,
\* in order, and touches neither the cache nor the sampler.
C20_NewCalls == resplitCalls' \ resplitCalls

C20_ResplitGetsCachedFrames ==
    [][ /\ frames' # frames =>
             \/ frames' = <<>> /\ lastOp'.name = "handleReset"
             \/ /\ Len(frames') = frameCount
                /\ analyzeCall = Null
                /\ analyzeCall' = Some(FrameData(frames'))
        /\ \A call \in C20_NewCalls :
             /\ lastOp'.name = "handleSceneClick"
             /\ Len(call.frames) = frameCount
             /\ \A k \in 1..frameCount : call.frames[k] = frames[k].dataUrl
             /\ \A k \in 1..(frameCount - 1) :
                    /\ call.frames[k].src = call.frames[k + 1].src
                    /\ RatLess(call.frames[k].time, call.frames[k + 1].time)
             /\ UNCHANGED <<frames, pv, canvas, sessions, analyzeCall, appState>>
             /\ pv.pc = "none" ]_vars

C20_Witness ==
    /\ lastOp.name = "handleSceneClick"
    /\ rdInstance = MaxSessions
    /\ \E call \in resplitCalls :
         /\ call.inst = rdInstance
         /\ call.frames = FrameData(frames)
         /\ Len(call.frames) = frameCount


\* C21: a failed initial analyze call ends the session in ERROR.  The step
\* that handles the failure is taken in ANALYZING_AI, sets appState to ERROR
\* with a reason, and stores no result; and COMPLETED is never entered from
\* ERROR, so the failed session never shows results.
C21_AnalyzeFailureFails ==
    [][ /\ AnalyzeFailed =>
             /\ appState = "ANALYZING_AI"
             /\ appState' = "ERROR"
             /\ errorMsg' # Null
             /\ result = Null /\ result' = Null
             /\ ~ResultsDisplayMounted(appState', result')
        /\ appState = "ERROR" => appState' # "COMPLETED" ]_vars

C21_Witness ==
    /\ lastOp.name = "analyzeFailed"
    /\ appState = "ERROR"
    /\ errorMsg # Null
    /\ result = Null


\* C22: a regenerateScenes request never changes the outer session state.
\* The step that accepts a request and the step that handles its response,
\* success or failure, leave appState as it is (COMPLETED for a request),
\* and while COMPLETED only handleReset changes appState.
C22_ResplitKeepsSessionState ==
    [][ /\ resplitCalls' # resplitCalls =>
             /\ appState' = appState
             /\ lastOp'.name \in {"handleSceneClick", "resplitSucceeded", "resplitFailed"}
        /\ lastOp'.name = "handleSceneClick" => appState' = "COMPLETED"
        /\ (resplitCalls' \ resplitCalls) # {} => appState = "COMPLETED"
        /\ (appState = "COMPLETED" /\ appState' # "COMPLETED") =>
             (lastOp'.name = "handleReset" /\ appState' = "IDLE") ]_vars

C22_Witness ==
    /\ lastOp.name = "resplitFailed"
    /\ lastOp.inst = rdInstance
    /\ appState = "COMPLETED"
    /\ result # Null
    /\ errorMsg = Some("Failed to split scenes. Please try again.")


\* C23: the busy flag of an accepted regenerateScenes request is cleared when
\* its resplit call completes, on success and on failure alike.  While the
\* flag is set, the call of the mounted ResultsDisplay is still outstanding;
\* and right after the response to that call has been handled the flag is
\* null, which is the condition under which the next request is accepted.
C23_BusyClearedOnCompletion ==
    /\ regeneratingScenes # Null =>
         \E call \in resplitCalls :
            call.inst = rdInstance /\ call.count = regeneratingScenes[1]
    /\ (/\ lastOp.name \in {"resplitSucceeded", "resplitFailed"}
        /\ lastOp.inst = rdInstance
        /\ ResultsDisplayMounted(appState, result))
         => regeneratingScenes = Null

\* C23 witness: in the first session a resplit call failed and the next
\* request has been accepted.
C23_Witness ==
    /\ rdInstance = 1
    /\ lastOp.name = "handleSceneClick"
    /\ regeneratingScenes # Null
    /\ errorMsg = Some("Failed to split scenes. Please try again.")


\* C24: no operation is retried.  An analyze call is issued only by the step
\* that ends a sampling pass, one per pass, and an outstanding one is never
\* replaced; an accepted regenerateScenes request adds exactly one resplit
\* call and nothing else adds any; and the step that handles a failure of
\* sampling, analyze or resplit leaves no call or pass of that operation
\* behind and issues none anew.
C24_Issued == resplitCalls' \ resplitCalls

C24_NoRetry ==
    [][ /\ (analyzeCall' # Null /\ analyzeCall' # analyzeCall) =>
             (analyzeCall = Null /\ lastOp' = Op("onSeeked", frameCount, 0) /\ pv' = PvNone)
        /\ C24_Issued # {} =>
             /\ lastOp'.name = "handleSceneClick"
             /\ C24_Issued = {[inst |-> rdInstance, count |-> lastOp'.count,
                               frames |-> FrameData(frames)]}
             /\ resplitCalls \subseteq resplitCalls'
        /\ (regeneratingScenes = Null /\ regeneratingScenes' # Null) =>
             Cardinality(C24_Issued) = 1
        /\ (analyzeCall # Null /\ lastOp'.name = "analyzeFailed") =>
             (analyzeCall' = Null /\ pv' = PvNone /\ appState' = "ERROR")
        /\ (resplitCalls' # resplitCalls /\ lastOp'.name = "resplitFailed") =>
             /\ C24_Issued = {}
             /\ \E call \in resplitCalls :
                    /\ resplitCalls' = resplitCalls \ {call}
                    /\ lastOp' = Op("resplitFailed", call.count, call.inst)
        /\ lastOp'.name = "onSeekedThrew" =>
             (pv' = PvNone /\ analyzeCall' = Null /\ appState' = "ERROR") ]_vars

\* C24 witness: a sampling pass has failed in its fifth iteration and
\* nothing of it is left running.
C24_Witness ==
    /\ lastOp = Op("onSeekedThrew", 5, 0)
    /\ pv = PvNone
    /\ analyzeCall = Null
    /\ appState = "ERROR"


\* C25: a result is stored exactly when the session is COMPLETED.  IDLE,
\* PROCESSING_VIDEO, ANALYZING_AI and ERROR never hold a result, and
\* COMPLETED always holds one together with a non-empty frame cache.
C25_ResultIffCompleted ==
    /\ (result # Null) <=> (appState = "COMPLETED")
    /\ appState = "COMPLETED" => (frames # <<>> /\ ResultsDisplayMounted(appState, result))

\* C25 witness: a second session is under way after a reset of the first.
C25_Witness ==
    /\ appState = "ANALYZING_AI"
    /\ rdInstance = 1
    /\ result = Null
    /\ resplitCalls # {}


\* C26: a successful resplit response that is handled while no result is
\* stored (after a reset, before a new analysis has completed) leaves the
\* result absent and the session state as it was: no result is made out of
\* scenes alone.
C26_LateScenesMakeNoResult ==
    [][ \A call \in resplitCalls : \A newScenes \in SceneLists :
          (result = Null /\ ResplitSucceeded(call, newScenes)) =>
             /\ result' = Null
             /\ appState' = appState
             /\ appState' # "COMPLETED"
             /\ frames' = frames ]_vars

C26_Witness ==
    /\ lastOp.name = "resplitSucceeded"
    /\ result = Null
    /\ appState \in {"IDLE", "PROCESSING_VIDEO", "ANALYZING_AI", "ERROR"}


\* C27: the recovery timer armed by handleError only ever fires in ERROR.
\* While a timer is pending the session is in ERROR, at most one is pending,
\* and the step in which one expires starts in ERROR and ends in IDLE: it
\* never pulls a session out of PROCESSING_VIDEO, ANALYZING_AI or COMPLETED.
C27_Pending == recoveryTimers[0] + recoveryTimers[RecoveryDelay]

C27_RecoveryFiresOnlyInError ==
    [][ /\ C27_Pending' > 0 => (appState' = "ERROR" /\ C27_Pending' = 1)
        /\ RecoveryTimerFires => (appState = "ERROR" /\ appState' = "IDLE") ]_vars

\* C27 witness: the timer of a failed sampling pass has expired.
C27_Witness ==
    /\ lastOp.name = "recoveryTimer"
    /\ appState = "IDLE"
    /\ errorMsg = Some("Error processing video frames.")
    /\ C27_Pending = 0


\* C28: every surfaced error message is eventually cleared without user
\* action.  Whenever errorMsg is set, in any session state, the auto-dismiss
\* timer is pending, and as time passes errorMsg later becomes null (by that
\* timer, by a processing start or by a reset).
C28_ErrorEventuallyCleared ==
    /\ [](errorMsg # Null => (dismissTimer # Null /\ dismissTimer[1] \in 0..DismissDelay))
    /\ (errorMsg # Null) ~> (errorMsg = Null)

\* C28 witness: the message of a failed resplit call was dismissed by the
\* timer while the results stay shown.
C28_Witness ==
    /\ lastOp.name = "dismissError"
    /\ errorMsg = Null
    /\ dismissTimer = Null
    /\ appState = "COMPLETED"

====
